---------------------------- MODULE Spec2Model ----------------------------
(***************************************************************************)
(* Model of demo_nonholo.py: the planning dynamics (Model A), the          *)
(* ground-truth dynamics (Model B), the two policies, the error metric,    *)
(* the feasibility predicate, the sampling heuristic and the tracking      *)
(* loop.                                                                   *)
(*                                                                         *)
(* Numbers.  The program computes in floating point; the model computes in *)
(* fixed point with integers:                                              *)
(*    position    cm          heading   1/100 degree (cdeg)                *)
(*    speed       mm/s        yaw rate  cdeg/s                             *)
(*    force       N           torque    N*m          time  ms              *)
(* cos and sin are read from a 15-degree table, interpolated linearly and  *)
(* scaled by 1000; arctan2 is rounded to a multiple of 5 degrees.  All     *)
(* three are exact at multiples of 45 degrees.                             *)
(*                                                                         *)
(* Indices.  Python's x[0..4] is x[1..5] here.                             *)
(***************************************************************************)
EXTENDS Integers, Sequences, FiniteSets, TLC

VARIABLES
    mode,           \* which part runs: "kernel", "sample", "sim", then "plot"
    call,           \* kernel driver: the function called last
    arg,            \* the caller's objects after the call: [x, u, goal]
    old,            \* the values of the same objects before the call
    ret,            \* what the call returned
    loc,            \* locals of the call worth observing: [u, raw]
    nsteps,         \* number of chained Model A steps
    obs,            \* the obstacle field (module global)
    sampling_bias,  \* module global read by xrand_gen
    planner,        \* what xrand_gen reads of the planner
    xrand,          \* the candidate xrand_gen returned
    choices,        \* np.greater(sampling_bias, np.random.sample())
    base,           \* xrand as first sampled, before any channel is overwritten
    ncalls,         \* number of calls of xrand_gen so far
    x,              \* tracking loop: the true state
    i,              \* tracking loop: index into t_arr
    T,              \* planner.T
    traj,           \* how the planner's trajectory answers: "hold" or "free"
    start,          \* the state the tracking loop started from
    hist,           \* [x, xref, goal, u]: the four history arrays
    used,           \* per step: the control after dynamics saturated it
    queried         \* per step: the time the trajectory was queried at

vars == <<mode, call, arg, old, ret, loc, nsteps, obs, sampling_bias, planner,
          xrand, choices, base, ncalls, x, i, T, traj, start, hist, used, queried>>

kernelVars == <<call, arg, old, ret, loc, nsteps>>
sampleVars == <<sampling_bias, planner, xrand, choices, base, ncalls>>
simVars == <<x, i, T, traj, start, hist, used, queried>>

----------------------------------------------------------------------------
(* Fixed-point arithmetic *)

\* Units per SI unit (docstring: m, m, rad, m/s, rad/s).
CmPerM == 100
CdegPerRad == 5730
TrigScale == 1000
HalfTurn == 18000

\* Division truncating toward zero, so that rounding is symmetric in sign.
Div(n, d) == IF n >= 0 THEN n \div d ELSE -((-n) \div d)

Abs(n) == IF n < 0 THEN -n ELSE n

Sign(n) == IF n > 0 THEN 1 ELSE IF n < 0 THEN -1 ELSE 0

\* 1000*cos at 0, 15, ..., 90 degrees.
CosTab == <<1000, 966, 866, 707, 500, 259, 0>>

CosQ(a) ==
    LET k == a \div 1500
        f == a % 1500
    IN  IF k >= 6 THEN 0
        ELSE CosTab[k + 1] + Div((CosTab[k + 2] - CosTab[k + 1]) * f, 1500)

\* np.cos, scaled by TrigScale.
Cos(a) ==
    LET r == a % (2 * HalfTurn)
        h == IF r > HalfTurn THEN 2 * HalfTurn - r ELSE r
    IN  IF h > HalfTurn \div 2 THEN -CosQ(HalfTurn - h) ELSE CosQ(h)

\* np.sin, scaled by TrigScale.
Sin(a) == Cos(a - HalfTurn \div 2)

\* np.arctan2(yy, xx) for yy >= 0, to the nearest multiple of 5 degrees in
\* [0, 180]: the number of directions 2.5, 7.5, ..., 177.5 degrees that
\* (xx, yy) lies to the left of.
ArctanUpper(yy, xx) ==
    500 * Cardinality({k \in 0 .. 35 :
                          Cos(250 + 500 * k) * yy - Sin(250 + 500 * k) * xx > 0})

\* np.arctan2(yy, xx) for arguments scaled alike; arctan2(0, 0) is 0.
Arctan2(yy, xx) ==
    IF yy >= 0 THEN ArctanUpper(yy, xx) ELSE -ArctanUpper(-yy, xx)

\* Element-wise subtraction and addition of arrays.
VSub(a, b) == [k \in DOMAIN a |-> a[k] - b[k]]
VAdd(a, b) == [k \in DOMAIN a |-> a[k] + b[k]]

----------------------------------------------------------------------------
(* Model A: physical parameters and dynamics *)

\* kg and kg*m^2; the lever is in cm.
m == 500
I == 500
\* 1.1 m/s and 0.2 rad/s
vel_max == <<1100, (2 * CdegPerRad) \div 10>>
thrust_max == 220
thrust_lever == 215
\* 2*sqrt(2)*thrust_max and 4*thrust_lever*thrust_max
u_max == <<(2828 * thrust_max) \div 1000, (4 * thrust_lever * thrust_max) \div 100>>
\* np.abs(u_max / vel_max): N per m/s, N*m per rad/s
D == <<Div(Abs(u_max[1]) * 1000, vel_max[1]), Div(Abs(u_max[2]) * CdegPerRad, vel_max[2])>>

\* Integration step the planner is constructed with.
dt_plan == 100

\* np.clip(u, lo, hi), element-wise.
Clip(u, lo, hi) ==
    [k \in DOMAIN u |-> IF u[k] < lo[k] THEN lo[k] ELSE IF u[k] > hi[k] THEN hi[k] ELSE u[k]]

\* The saturation of Model A without its lower bound on axis 0.
SaturateA_symmetric(u) ==
    Clip(u, <<-u_max[1], -u_max[2]>>, u_max)

\* Actuator saturation of Model A.
SaturateA(u) ==
    Clip(u, <<-(u_max[1] \div 10), -u_max[2]>>, u_max)

\* x + xdot*dt of Model A, before the non-reverse clamp; uc is the saturated u.
IntegrateA(xx, uc, dt) ==
    LET vwx == Div(Cos(xx[3]) * xx[4], TrigScale)
        vwy == Div(Sin(xx[3]) * xx[4], TrigScale)
        av  == Div(1000 * (uc[1] - Div(D[1] * xx[4], 1000)), m)
        ah  == Div(CdegPerRad * (uc[2] - Div(D[2] * xx[5], CdegPerRad)), I)
    IN  << xx[1] + Div(vwx * dt, 10000),
           xx[2] + Div(vwy * dt, 10000),
           xx[3] + Div(xx[5] * dt, 1000),
           xx[4] + Div(av * dt, 1000),
           xx[5] + Div(ah * dt, 1000) >>

\* The non-reverse clamp left out.
NonReverse_absent(xnext) == xnext

\* if xnext[3] < 0: xnext[3] = 0
NonReverse(xnext) ==
    IF xnext[4] < 0 THEN [xnext EXCEPT ![4] = 0] ELSE xnext

\* dynamics(x, u, dt) of Model A.  ret is the returned array; x and u are
\* the caller's objects after the call (np.clip and x + xdot*dt build new
\* arrays, so both are left as they were); uc and raw are locals.
dynamics(xx, uu, dt) ==
    LET uc  == SaturateA(uu)
        raw == IntegrateA(xx, uc, dt)
    IN  [ret |-> NonReverse(raw), x |-> xx, u |-> uu, uc |-> uc, raw |-> raw]

\* Vehicle dimensions and resolution (m).
boat_length == 6
boat_width == 3
boat_buffer == 2
vps_spacing == 1

\* np.mgrid[slice(lo, hi, step)] in cm, lo, hi and step given in half metres.
GridAxis(lo2, hi2, step2) ==
    {50 * (lo2 + k * step2) : k \in {j \in 0 .. 40 : lo2 + j * step2 < hi2}}

\* Vehicle points, body frame (cm).
vps ==
    LET gx == GridAxis(-(boat_length + boat_buffer), (boat_length + boat_buffer) + 2 * vps_spacing,
                       2 * vps_spacing)
        gy == GridAxis(-(boat_width + boat_buffer), (boat_width + boat_buffer) + 2 * vps_spacing,
                       2 * vps_spacing)
    IN  {<<px, py>> : px \in gx, py \in gy}

----------------------------------------------------------------------------
(* Control policy and error metric *)

\* Matrices are sequences of rows.
MatMul(A, B) ==
    [r \in DOMAIN A |-> [c \in DOMAIN B[1] |->
        LET Sum[k \in 0 .. Len(B)] == IF k = 0 THEN 0 ELSE Sum[k - 1] + A[r][k] * B[k][c]
        IN  Sum[Len(B)]]]
HStack(A, B) == [r \in DOMAIN A |-> A[r] \o B[r]]
Transpose(A) == [c \in DOMAIN A[1] |-> [r \in DOMAIN A |-> A[r][c]]]
Scaled(A, f) == [r \in DOMAIN A |-> [c \in DOMAIN A[r] |-> f * A[r][c]]]

\* Body-frame gains of Model A.
kp == << <<120, 0>>, <<0, 600>> >>
kd == << <<120, 0>>, <<0, 600>> >>

\* lqr(x) of Model A: (S, K); S's diagonal and K are scaled by TrigScale.
lqr(xx) ==
    LET w2b == << <<Cos(xx[3]), Sin(xx[3]), 0>>,
                  <<0, 0, TrigScale>> >>
    IN  [S |-> <<1000, 1000, 100, 10, 1>>,
         K |-> HStack(MatMul(kp, w2b), Scaled(kd, TrigScale))]

\* e[2] of erf: c, s and cg are taken from x[2], only sg from xgoal[2].
HeadingError(hgoal, h) ==
    LET c  == Cos(h)
        s  == Sin(h)
        cg == Cos(h)
        sg == Sin(hgoal)
    IN  Arctan2(Div(sg * c - cg * s, TrigScale), Div(cg * c + sg * s, TrigScale))

\* The error with the state added instead of subtracted.
erf_sum(xgoal, xx) ==
    [VAdd(xgoal, xx) EXCEPT ![3] = HeadingError(xgoal[3], xx[3])]

\* erf(xgoal, x): e = xgoal - x is a new array, whose heading is overwritten.
erf(xgoal, xx) ==
    [VSub(xgoal, xx) EXCEPT ![3] = HeadingError(xgoal[3], xx[3])]

----------------------------------------------------------------------------
(* Feasibility *)

\* An obstacle nobody placed: -9999*np.ones(3), radius included.
NoObstacle == <<-999900, -999900, -999900>>

\* npl.norm(p - ob[:2]) <= 2*ob[2]; a norm is never <= a negative number.
Within(p, ob) ==
    /\ ob[3] >= 0
    /\ (p[1] - ob[1]) * (p[1] - ob[1]) + (p[2] - ob[2]) * (p[2] - ob[2])
         <= (2 * ob[3]) * (2 * ob[3])

\* R.dot(p) for the rotation R of heading h.
Rotate(h, p) ==
    << Div(Cos(h) * p[1] - Sin(h) * p[2], TrigScale),
       Div(Sin(h) * p[1] + Cos(h) * p[2], TrigScale) >>

\* verts of is_feasible: the rotated vehicle points, and x[:2].
Verts(xx) == {Rotate(xx[3], p) : p \in vps} \cup {<<xx[1], xx[2]>>}

\* is_feasible(x, u) against the obstacle field obstacles.
is_feasible(xx, uu, obstacles) ==
    ~ \E k \in DOMAIN obstacles : \E p \in Verts(xx) : Within(p, obstacles[k])

----------------------------------------------------------------------------
(* Model B: the true dynamics and its policy *)

vel_pos == <<1100, 450, (2 * CdegPerRad) \div 10>>
vel_neg == <<-680, -450, -((2 * CdegPerRad) \div 10)>>
u_max_B == <<u_max[1], u_max[1], u_max[2]>>
UnitsB == <<1000, 1000, CdegPerRad>>
D_pos == [k \in 1 .. 3 |-> Div(Abs(u_max_B[k]) * UnitsB[k], Abs(vel_pos[k]))]
D_neg == [k \in 1 .. 3 |-> Div(Abs(u_max_B[k]) * UnitsB[k], Abs(vel_neg[k]))]

\* Integration step of the tracking loop.
dt == 30

\* The saturation loop of Model B left out.
SaturateB_absent(uu) == uu

\* The saturation loop of Model B: u[i] = u_max[i] * np.sign(u[i]).
SaturateB(uu) ==
    [k \in DOMAIN uu |-> IF Abs(uu[k]) > u_max_B[k] THEN u_max_B[k] * Sign(uu[k]) ELSE uu[k]]

\* dynamics(x, u, dt) of Model B.  The saturation loop assigns into u, the
\* caller's array: field u is that array after the call.
dynamics_B(xx, uu, step) ==
    LET c    == Cos(xx[3])
        s    == Sin(xx[3])
        v    == <<xx[4], xx[5], xx[6]>>
        Dsel == [k \in 1 .. 3 |-> IF v[k] >= 0 THEN D_pos[k] ELSE D_neg[k]]
        us   == SaturateB(uu)
        vwx  == Div(c * v[1] - s * v[2], TrigScale)
        vwy  == Div(s * v[1] + c * v[2], TrigScale)
        ax   == Div(1000 * (us[1] - Div(Dsel[1] * v[1], 1000)), m)
        ay   == Div(1000 * (us[2] - Div(Dsel[2] * v[2], 1000)), m)
        ah   == Div(CdegPerRad * (us[3] - Div(Dsel[3] * v[3], CdegPerRad)), I)
    IN  [ret |-> << xx[1] + Div(vwx * step, 10000),
                    xx[2] + Div(vwy * step, 10000),
                    xx[3] + Div(v[3] * step, 1000),
                    xx[4] + Div(ax * step, 1000),
                    xx[5] + Div(ay * step, 1000),
                    xx[6] + Div(ah * step, 1000) >>,
         x |-> xx,
         u |-> us]

\* Body-frame gains of Model B.
kp_B == << <<120, 0, 0>>, <<0, 120, 0>>, <<0, 0, 300>> >>
kd_B == << <<120, 0, 0>>, <<0, 120, 0>>, <<0, 0, 200>> >>

\* lqr(x) of Model B: (S, K); S's diagonal and K are scaled by TrigScale.
lqr_B(xx) ==
    LET R == << <<Cos(xx[3]), -Sin(xx[3]), 0>>,
                <<Sin(xx[3]), Cos(xx[3]), 0>>,
                <<0, 0, TrigScale>> >>
    IN  [S |-> <<1000, 1000, 0, 50, 50, 0>>,
         K |-> HStack(MatMul(kp_B, Transpose(R)), Scaled(kd_B, TrigScale))]

\* An error of Model B in cm, crad, cm/s and crad/s.
Centi(e) ==
    << e[1], e[2], Div(e[3] * 100, CdegPerRad),
       Div(e[4], 10), Div(e[5], 10), Div(e[6] * 100, CdegPerRad) >>

\* K.dot(e) in N and N*m.
KDot(K, e) ==
    LET Sum[r \in DOMAIN K, k \in 0 .. 6] ==
            IF k = 0 THEN 0 ELSE Sum[r, k - 1] + Div(K[r][k] * Centi(e)[k], TrigScale)
    IN  [r \in DOMAIN K |-> Div(Sum[r, 6], CmPerM)]

----------------------------------------------------------------------------
(* Objectives and the obstacle field *)

\* Initial condition and goal of the demo (Model A's dimensions).
x0 == <<0, 0, 0, 0, 0>>
goal == <<4000, 4000, 9000, 0, 0>>

obs_spacing == 12
obs_range == <<5, 60>>

\* The grid of obstacles, every one displaced by jitter (cm): a grid point
\* within 2*boat_length of the start or of the goal keeps the placeholder.
GenObstacles(jitter) ==
    LET axis == {k * CmPerM : k \in {j \in obs_range[1] .. obs_range[2] + obs_spacing - 1 :
                                        (j - obs_range[1]) % obs_spacing = 0}}
        far(p, q) == (p[1] - q[1]) * (p[1] - q[1]) + (p[2] - q[2]) * (p[2] - q[2])
                        > (2 * boat_length * CmPerM) * (2 * boat_length * CmPerM)
        pts == {<<gx + jitter[1], gy + jitter[2]>> : gx \in axis, gy \in axis}
        one(p) == IF far(p, goal) /\ far(p, x0) THEN <<p[1], p[2], CmPerM>> ELSE NoObstacle
        Seq2[S \in SUBSET pts] ==
            IF S = {} THEN <<>>
            ELSE LET p == CHOOSE q \in S : \A r \in S : q[1] < r[1] \/ (q[1] = r[1] /\ q[2] <= r[2])
                 IN  <<one(p)>> \o Seq2[S \ {p}]
    IN  Seq2[pts]

----------------------------------------------------------------------------
(* The kernel functions, called one at a time *)

MaxSteps == 3

Jitters == {<<0, 0>>, <<150, -150>>}

StatesA ==
    {<<2000, 0, h, v, w>> : h \in {0, 40500}, v \in {-100, 0, 10, 1000}, w \in {0, 600}}
ControlsA == {<<a, b>> : a \in {-1000, -62, 0, 1000}, b \in {-3000, 0}}

StatesB ==
    {<<px, 0, h, v, 0, w>> : px \in {0, 2000}, h \in {0, 9000},
                             v \in {-500, 0, 1000}, w \in {0, 600}}
ControlsB == {<<a, 0, b>> : a \in {-1000, 0, 600}, b \in {-3000, 0, 1000}}

Headings == {-40500, -18000, -9000, 0, 9000, 18000, 27000, 36000, 81000}
StatesE == {<<px, 0, h, v, 0>> : px \in {0, 2000}, h \in Headings, v \in {0, 1000}}

StatesF ==
    {<<px, py, h, 0, 0>> : px \in {0, 1700, 2000, 10000}, py \in {0, 1700, 10000},
                           h \in {0, 9000}}

None == <<>>

KernelInit ==
    /\ mode = "kernel"
    /\ call = "none"
    /\ arg = [x |-> None, u |-> None, goal |-> None]
    /\ old = [x |-> None, u |-> None, goal |-> None]
    /\ ret = None
    /\ loc = [u |-> None, raw |-> None]
    /\ nsteps = 0
    /\ obs \in {GenObstacles(j) : j \in Jitters}

\* One call of Model A's dynamics on state xx and control uu.
DoDynamicsA(xx, uu) ==
    LET r == dynamics(xx, uu, dt_plan)
    IN  /\ call' = "dynamics"
        /\ old' = [x |-> xx, u |-> uu, goal |-> None]
        /\ arg' = [x |-> r.x, u |-> r.u, goal |-> None]
        /\ ret' = r.ret
        /\ loc' = [u |-> r.uc, raw |-> r.raw]

CallDynamicsA ==
    /\ mode = "kernel"
    /\ call = "none"
    /\ \E xx \in StatesA, uu \in ControlsA : DoDynamicsA(xx, uu)
    /\ nsteps' = 1
    /\ UNCHANGED <<mode, obs, sampleVars, simVars>>

\* The state Model A returned is stepped again, as the planner's tree growth does.
StepDynamicsA ==
    /\ mode = "kernel"
    /\ call = "dynamics"
    /\ nsteps < MaxSteps
    /\ \E uu \in ControlsA : DoDynamicsA(ret, uu)
    /\ nsteps' = nsteps + 1
    /\ UNCHANGED <<mode, obs, sampleVars, simVars>>

CallDynamicsB ==
    /\ mode = "kernel"
    /\ call = "none"
    /\ \E xx \in StatesB, uu \in ControlsB :
          LET r == dynamics_B(xx, uu, dt)
          IN  /\ call' = "dynamics_B"
              /\ old' = [x |-> xx, u |-> uu, goal |-> None]
              /\ arg' = [x |-> r.x, u |-> r.u, goal |-> None]
              /\ ret' = r.ret
    /\ loc' = [u |-> None, raw |-> None]
    /\ nsteps' = 0
    /\ UNCHANGED <<mode, obs, sampleVars, simVars>>

CallLqr ==
    /\ mode = "kernel"
    /\ call = "none"
    /\ \E xx \in StatesA :
          /\ call' = "lqr"
          /\ old' = [x |-> xx, u |-> None, goal |-> None]
          /\ arg' = [x |-> xx, u |-> None, goal |-> None]
          /\ ret' = lqr(xx)
    /\ loc' = [u |-> None, raw |-> None]
    /\ nsteps' = 0
    /\ UNCHANGED <<mode, obs, sampleVars, simVars>>

CallLqrB ==
    /\ mode = "kernel"
    /\ call = "none"
    /\ \E xx \in StatesB :
          /\ call' = "lqr_B"
          /\ old' = [x |-> xx, u |-> None, goal |-> None]
          /\ arg' = [x |-> xx, u |-> None, goal |-> None]
          /\ ret' = lqr_B(xx)
    /\ loc' = [u |-> None, raw |-> None]
    /\ nsteps' = 0
    /\ UNCHANGED <<mode, obs, sampleVars, simVars>>

CallErf ==
    /\ mode = "kernel"
    /\ call = "none"
    /\ \E xgoal \in StatesE, xx \in StatesE :
          /\ call' = "erf"
          /\ old' = [x |-> xx, u |-> None, goal |-> xgoal]
          /\ arg' = [x |-> xx, u |-> None, goal |-> xgoal]
          /\ ret' = erf(xgoal, xx)
    /\ loc' = [u |-> None, raw |-> None]
    /\ nsteps' = 0
    /\ UNCHANGED <<mode, obs, sampleVars, simVars>>

CallIsFeasible ==
    /\ mode = "kernel"
    /\ call = "none"
    /\ \E xx \in StatesF, uu \in ControlsA :
          /\ call' = "is_feasible"
          /\ old' = [x |-> xx, u |-> uu, goal |-> None]
          /\ arg' = [x |-> xx, u |-> uu, goal |-> None]
          /\ ret' = is_feasible(xx, uu, obs)
    /\ loc' = [u |-> None, raw |-> None]
    /\ nsteps' = 0
    /\ UNCHANGED <<mode, obs, sampleVars, simVars>>

KernelIdle ==
    /\ call = "none"
    /\ arg = None /\ old = None /\ ret = None /\ loc = None
    /\ nsteps = 0
    /\ obs = None

SampleIdle ==
    /\ sampling_bias = None /\ planner = None /\ xrand = None
    /\ choices = None /\ base = None /\ ncalls = 0

SimIdle ==
    /\ x = None /\ i = 0 /\ T = 0 /\ traj = "none" /\ start = None
    /\ hist = None /\ used = None /\ queried = None

Init == KernelInit /\ SampleIdle /\ SimIdle

Next ==
    \/ CallDynamicsA
    \/ StepDynamicsA
    \/ CallDynamicsB
    \/ CallLqr
    \/ CallLqrB
    \/ CallErf
    \/ CallIsFeasible

Spec == Init /\ [][Next]_vars

----------------------------------------------------------------------------
(* The sampling heuristic *)

\* (min, max) per channel.
search_buffer ==
    << <<0, 0>>, <<0, 0>>, <<-HalfTurn, HalfTurn>>, <<1000, 1100>>,
       <<-((2 * CdegPerRad) \div 10), (2 * CdegPerRad) \div 10>> >>

\* What the planner's constraints object derives from search_buffer.
search_buffer_spans == [k \in 1 .. 5 |-> search_buffer[k][2] - search_buffer[k][1]]
search_buffer_offsets == [k \in 1 .. 5 |-> Div(search_buffer[k][1] + search_buffer[k][2], 2)]

\* planner._costs_to_go(goal): one cost per node of the tree.
CostsToGo(tree, g) ==
    [k \in DOMAIN tree |->
        Div(tree[k][1] - g[1], 100) * Div(tree[k][1] - g[1], 100)
      + Div(tree[k][2] - g[2], 100) * Div(tree[k][2] - g[2], 100)]

\* np.argmin: the first index of the least value.
ArgMin(c) == CHOOSE k \in DOMAIN c : \A j \in DOMAIN c : c[k] < c[j] \/ (c[k] = c[j] /\ k <= j)

\* The comparison with its arguments exchanged.
SnapChoices_exchanged(bias, r) == [k \in DOMAIN bias |-> r > bias[k]]

\* np.greater(sampling_bias, np.random.sample()): one draw r for all channels.
SnapChoices(bias, r) == [k \in DOMAIN bias |-> bias[k] > r]

\* xrand[2] = hgoal + np.deg2rad(30)*np.random.randn(); n is the draw * 1000.
AngleBias(xr, hgoal, n) == [xr EXCEPT ![3] = hgoal + Div(3000 * n, 1000)]

\* xrand_gen(planner) with the draws it makes given: rs (np.random.sample of
\* nstates, per mille), r (np.random.sample, per mille), n (np.random.randn
\* times 1000).  bias is the global sampling_bias.
xrand_gen(pl, bias, rs, r, n) ==
    LET sampling_spans == [k \in 1 .. 5 |-> 2 * Abs(pl.goal[k] - x0[k]) + pl.search_buffer_spans[k]]
        first == [k \in 1 .. 5 |-> pl.goal[k] + Div(sampling_spans[k] * (rs[k] - 500), 1000)
                                     + pl.search_buffer_offsets[k]]
        choice == SnapChoices(bias, r)
        snapped == [k \in 1 .. 5 |-> IF choice[k] THEN pl.goal[k] ELSE first[k]]
        closest == pl.tree[ArgMin(CostsToGo(pl.tree, pl.goal))]
        v_to_goal == VSub(goal, closest)
        hgoal == Arctan2(v_to_goal[2], v_to_goal[1])
    IN  [xrand |-> AngleBias(snapped, hgoal, n), choices |-> choice, base |-> first]

MaxCalls == 2

BiasConfigs ==
    {<<a, b, c[1], c[2], c[3]>> : a \in {300, 600, 1000}, b \in {0, 300, 600},
                                  c \in {<<0, 0, 0>>, <<1000, 1000, 1000>>}}
PlannerGoals == {goal, <<2000, 4000, 0, 500, 0>>}
Trees == { <<x0>>,
           <<x0, <<2000, 1000, 4500, 500, 0>>, <<4000, 3000, 9000, 500, 0>> >> }
SampleDraws == {<<0, 0, 0, 0, 0>>, <<0, 999, 500, 999, 250>>}
SnapDraws == {0, 300, 999}
NoiseDraws == {-1000, 0, 1000}

SampleInit ==
    /\ mode = "sample"
    /\ sampling_bias \in BiasConfigs
    /\ planner \in {[goal |-> g, nstates |-> 5, tree |-> t,
                     search_buffer_spans |-> search_buffer_spans,
                     search_buffer_offsets |-> search_buffer_offsets] :
                        g \in PlannerGoals, t \in Trees}
    /\ xrand = None
    /\ choices = None
    /\ base = None
    /\ ncalls = 0

\* The planner asks for one more sample.
CallXrandGen ==
    /\ mode = "sample"
    /\ ncalls < MaxCalls
    /\ \E rs \in SampleDraws, r \in SnapDraws, n \in NoiseDraws :
          LET res == xrand_gen(planner, sampling_bias, rs, r, n)
          IN  /\ xrand' = res.xrand
              /\ choices' = res.choices
              /\ base' = res.base
    /\ ncalls' = ncalls + 1
    /\ UNCHANGED <<mode, sampling_bias, planner, obs, kernelVars, simVars>>

SampleStart == SampleInit /\ KernelIdle /\ SimIdle

SampleSpec == SampleStart /\ [][CallXrandGen]_vars

----------------------------------------------------------------------------
(* The tracking loop *)

MaxIterations == 4

\* len(np.arange(0, T, dt)), one iteration more than that.
NumSteps_inclusive(duration) == duration \div dt + 1

\* len(t_arr) for t_arr = np.arange(0, T, dt): the least n with n*dt >= T.
NumSteps(duration) == (duration + dt - 1) \div dt

\* x = [x[0], x[1], x[2], x[3], 0, x[4]]
Real(xa) == <<xa[1], xa[2], xa[3], xa[4], 0, xa[5]>>

\* uref = [uplan[0], 0, uplan[1]]
RealEffort(ua) == <<ua[1], 0, ua[2]>>

Zeros(n) == [k \in 1 .. n |-> 0]

\* The states the loop is started from, and what a planned trajectory may answer.
Starts ==
    { x0, <<0, 0, 4500, 0, 0>>, <<2000, 0, 4500, 0, 0>>,
      <<2000, 0, 4500, 1000, 0>>, <<2000, 0, 0, 1000, 0>>, <<0, 0, 0, 0, 600>> }
PlannedPoints ==
    { [x |-> x0, u |-> <<0, 0>>],
      [x |-> <<2000, 0, 4500, 1000, 0>>, u |-> <<600, -100>>],
      [x |-> goal, u |-> <<0, 0>>] }
Durations == {0, 45, 60, 90, MaxIterations * dt}

SimInit ==
    /\ mode = "sim"
    /\ start \in {Real(s) : s \in Starts}
    /\ x = start
    /\ T \in Durations
    /\ traj \in {"hold", "free"}
    /\ i = 0
    /\ hist = [x    |-> [k \in 1 .. NumSteps(T) |-> Zeros(6)],
               xref |-> [k \in 1 .. NumSteps(T) |-> Zeros(6)],
               goal |-> [k \in 1 .. NumSteps(T) |-> Zeros(6)],
               u    |-> [k \in 1 .. NumSteps(T) |-> Zeros(3)]]
    /\ used = <<>>
    /\ queried = <<>>

\* planner.get_state(t) and planner.get_effort(t): a trajectory that holds the
\* start state with no effort, or any planned state and effort.
Plans(t) ==
    IF traj = "hold"
    THEN {[x |-> <<start[1], start[2], start[3], start[4], start[6]>>, u |-> <<0, 0>>]}
    ELSE PlannedPoints

\* u = lqr(x)[1].dot(erf(xref, np.copy(x))) + uref.  The gain and the error
\* are bound once each, as the program evaluates them once.
Controller(xx, xref, uref) ==
    CHOOSE u \in {VAdd(KDot(K, e), uref) : K \in {lqr_B(xx).K}, e \in {erf(xref, xx)}} : TRUE

\* One iteration of "for i, t in enumerate(t_arr)".
SimStep ==
    /\ mode = "sim"
    /\ i < NumSteps(T)
    /\ LET t == i * dt
       IN  \E plan \in Plans(t) :
              LET xref == Real(plan.x)
                  uref == RealEffort(plan.u)
              IN  \E u \in {Controller(x, xref, uref)} : \E r \in {dynamics_B(x, u, dt)} :
                  /\ hist' = [x    |-> [hist.x EXCEPT ![i + 1] = x],
                              xref |-> [hist.xref EXCEPT ![i + 1] = xref],
                              goal |-> [hist.goal EXCEPT ![i + 1] = Real(goal)],
                              u    |-> [hist.u EXCEPT ![i + 1] = u]]
                  /\ x' = r.ret
                  /\ used' = Append(used, r.u)
                  /\ queried' = Append(queried, t)
    /\ i' = i + 1
    /\ UNCHANGED <<mode, start, T, traj, obs, kernelVars, sampleVars>>

\* t_arr is exhausted: the loop is left and the results are plotted.
SimExit ==
    /\ mode = "sim"
    /\ i >= NumSteps(T)
    /\ mode' = "plot"
    /\ UNCHANGED <<obs, kernelVars, sampleVars, simVars>>

SimStart == SimInit /\ KernelIdle /\ SampleIdle

SimNext == SimStep \/ SimExit

SimSpec == SimStart /\ [][SimNext]_vars

\* The interpreter runs the loop on: no step that can be taken waits forever.
SimFairSpec == SimSpec /\ WF_vars(SimNext)

----------------------------------------------------------------------------
(* Properties *)

\* The vehicle points of state xx in the world frame: rotated by the heading
\* and translated by the position.
WorldPoints(xx) ==
    {<<q[1] + xx[1], q[2] + xx[2]>> : q \in {Rotate(xx[3], p) : p \in vps}}

\* C1: is_feasible returns false whenever a vehicle point, rotated by the
\* heading and translated by the position, is within twice the radius of an
\* obstacle's centre, and true when every such point and the bare position are
\* farther than that from every obstacle.
C1_FeasibleIffClear ==
    call = "is_feasible" =>
        /\ (\E k \in DOMAIN obs : \E p \in WorldPoints(old.x) : Within(p, obs[k]))
              => ret = FALSE
        /\ (\A k \in DOMAIN obs :
               \A p \in WorldPoints(old.x) \cup {<<old.x[1], old.x[2]>>} : ~Within(p, obs[k]))
              => ret = TRUE

\* C2: the forward speed Model A returns is never negative, whatever the
\* input state (a negative forward speed included), the control and the
\* number of steps taken; a speed the integration made negative is returned
\* as exactly 0.
C2_NonReverse ==
    call = "dynamics" =>
        /\ ret[4] >= 0
        /\ loc.raw[4] < 0 => ret[4] = 0

C2_Clamped ==
    /\ call = "dynamics"
    /\ nsteps >= 2
    /\ loc.raw[4] < 0
    /\ ret[4] = 0

\* The value in (-180, 180] degrees congruent to d modulo a full turn.
WrapPi(d) == ((d + HalfTurn - 1) % (2 * HalfTurn)) - (HalfTurn - 1)

\* C3: the heading channel of erf(goal, state) is the shortest signed angle
\* from state to goal, the value in (-pi, pi] congruent to goal - state
\* modulo 2*pi; every other channel is goal - state.
C3_ShortestAngle ==
    call = "erf" =>
        /\ ret[3] = WrapPi(old.goal[3] - old.x[3])
        /\ \A k \in {1, 2, 4, 5} : ret[k] = old.goal[k] - old.x[k]

\* C4: with a trajectory that holds the start state with no effort, every
\* recorded true state is the start state and every control is zero.
C4_HoldIsFixedPoint ==
    traj = "hold" =>
        \A k \in 1 .. i : hist.x[k] = start /\ hist.u[k] = Zeros(3)

AtRest(xx) == xx[4] = 0 /\ xx[5] = 0 /\ xx[6] = 0

\* C4, amended: with such a trajectory and a start state at rest (forward
\* speed, lateral speed and yaw rate all zero), every recorded true state is
\* the start state, every control computed and applied is zero, and the state
\* never changes.
C4_HoldAtRestIsFixedPoint ==
    (traj = "hold" /\ AtRest(start)) =>
        /\ x = start
        /\ \A k \in 1 .. i :
              hist.x[k] = start /\ hist.u[k] = Zeros(3) /\ used[k] = Zeros(3)

C4_HeldAtRest ==
    /\ traj = "hold"
    /\ AtRest(start)
    /\ start[1] # 0 /\ start[3] # 0
    /\ i >= 2

\* C5: the control Model A uses lies in [-max0/10, max0] on axis 0 and in
\* [-max1, max1] on axis 1 whatever control is requested, a next state is
\* always returned, and a control inside these bounds is used unchanged.
C5_Saturation ==
    call = "dynamics" =>
        /\ 10 * loc.u[1] >= -u_max[1] /\ loc.u[1] <= u_max[1]
        /\ loc.u[2] >= -u_max[2] /\ loc.u[2] <= u_max[2]
        /\ DOMAIN ret = 1 .. 5
        /\ ( /\ 10 * old.u[1] >= -u_max[1] /\ old.u[1] <= u_max[1]
             /\ old.u[2] >= -u_max[2] /\ old.u[2] <= u_max[2] ) => loc.u = old.u

C5_Saturated ==
    /\ call = "dynamics"
    /\ old.u[1] < -u_max[1]
    /\ old.u[2] < -u_max[2]
    /\ loc.u # old.u

\* C6: a channel whose bias probability is 1.0 is returned equal to the
\* goal's value on that channel, for every channel, heading included.
C6_EveryChannelSnaps ==
    ncalls > 0 =>
        \A k \in 1 .. 5 : sampling_bias[k] = 1000 => xrand[k] = planner.goal[k]

\* C6, amended: a channel other than heading whose bias probability is 1.0
\* is returned equal to the goal's value on that channel; the heading channel
\* is overwritten by the bearing bias whatever its bias probability.
C6_NonHeadingSnaps ==
    ncalls > 0 =>
        \A k \in {1, 2, 4, 5} : sampling_bias[k] = 1000 => xrand[k] = planner.goal[k]

C6_Snapped ==
    /\ ncalls > 0
    /\ sampling_bias[1] = 1000 /\ base[1] # planner.goal[1] /\ xrand[1] = planner.goal[1]
    /\ sampling_bias[4] = 1000 /\ base[4] # planner.goal[4] /\ xrand[4] = planner.goal[4]

\* C7: no kernel function changes the state, goal or control its caller
\* passed in.
C7_Pure ==
    call # "none" => arg = old

\* C8: in one call, for two channels with bias probabilities strictly between
\* 0 and 1, each of the four combinations of snapped and not snapped is a
\* possible outcome.
C8_Independent ==
    ncalls < MaxCalls =>
        \A a \in 1 .. 5, b \in 1 .. 5 :
            ( /\ a # b
              /\ 0 < sampling_bias[a] /\ sampling_bias[a] < 1000
              /\ 0 < sampling_bias[b] /\ sampling_bias[b] < 1000 )
            => \A ca \in BOOLEAN, cb \in BOOLEAN :
                  ENABLED (CallXrandGen /\ choices'[a] = ca /\ choices'[b] = cb)

\* What every state of the loop satisfies: one iteration per time k*dt,
\* in order and below T, one row of the histories written per iteration, and
\* the loop left only when no such time remains.
FixedHorizon ==
    /\ Len(queried) = i
    /\ \A k \in 1 .. i : queried[k] = (k - 1) * dt /\ 0 <= queried[k] /\ queried[k] < T
    /\ \A k \in DOMAIN hist.goal :
          hist.goal[k] = (IF k <= i THEN Real(goal) ELSE Zeros(6))
    /\ mode = "plot" => i * dt >= T

\* C9: the loop terminates after exactly one iteration per time t = k*dt
\* with 0 <= t < T, in increasing order, writing one row of the histories
\* each; it is not left while such a time remains, whatever the tracking
\* error, and never queries the trajectory outside [0, T].
C9_FixedHorizon == []FixedHorizon /\ <>(mode = "plot")

C9_RanFullHorizon ==
    /\ mode = "plot"
    /\ traj = "hold"
    /\ AtRest(start)
    /\ i >= 3

\* C10: the control recorded for a step is the control the true dynamics
\* applied after saturation, so every recorded component is within its
\* per-axis maximum.
C10_RecordedIsApplied ==
    \A k \in 1 .. i :
        /\ hist.u[k] = used[k]
        /\ \A j \in 1 .. 3 : Abs(hist.u[k][j]) <= u_max_B[j]

\* C10, amended: the control recorded for a step is the control the
\* controller computed, before saturation; the control the true dynamics
\* applies is the recorded one limited to its per-axis maximum, so that it is
\* the applied control, not the recorded one, that is bounded.
C10_AppliedIsRecordedSaturated ==
    \A k \in 1 .. i : \A j \in 1 .. 3 :
        /\ Abs(used[k][j]) <= u_max_B[j]
        /\ Abs(hist.u[k][j]) <= u_max_B[j] => used[k][j] = hist.u[k][j]
        /\ hist.u[k][j] > u_max_B[j] => used[k][j] = u_max_B[j]
        /\ hist.u[k][j] < -u_max_B[j] => used[k][j] = -u_max_B[j]

C10_RecordedOverLimit ==
    \E k \in 1 .. i :
        /\ Abs(hist.u[k][1]) > u_max_B[1]
        /\ used[k][1] # hist.u[k][1]

=============================================================================
